---------------------------- MODULE Spec2Model ----------------------------
(***************************************************************************)
(* A model of the PubMed paper fetcher (src/task.py): one search request,  *)
(* one batched detail request, the parsing of the detail response into     *)
(* flat records, the keyword classification of author affiliations, and    *)
(* the report written to a file or to the console.                         *)
(*                                                                         *)
(* Python strings are sequences of one-character strings.  A Python value  *)
(* that is either a str or None is a tagged record (PyStr, PyNone).  A     *)
(* dict with optional keys is a function whose DOMAIN holds the keys that  *)
(* are present; the result mapping of the detail response, whose iteration *)
(* order matters, is a sequence of key/value pairs.                        *)
(***************************************************************************)
EXTENDS Integers, Sequences, FiniteSets, TLC

VARIABLES
    pc,           \* position of the run in main / of the function under study
    args_file,    \* TRUE iff -f/--file was given on the command line
    fs,           \* the file at the destination path
    net_log,      \* the network traffic so far, in order
    search_resp,  \* the response of the search endpoint
    paper_ids,    \* idlist taken from the search response
    detail_resp,  \* the response of the detail endpoint
    papers,       \* the list of PaperRecords
    exc,          \* the exception that escaped main ("none" if none)
    stdout,       \* the records printed in console mode
    authors,      \* argument of filter_non_academic_authors
    classified,   \* result of filter_non_academic_authors
    json_error    \* class of the error response.json() raises in this build

vars == <<pc, args_file, fs, net_log, search_resp, paper_ids, detail_resp,
          papers, exc, stdout, authors, classified, json_error>>

---------------------------------------------------------------------------
(* Bounds of the model *)

\* longest author list of a paper
MaxAuthors == 2
\* longest identifier list the search endpoint returns
MaxIds == 2

---------------------------------------------------------------------------
(* Python values *)

PyStr(s) == [kind |-> "str", val |-> s]

PyNone == [kind |-> "NoneType", val |-> <<>>]

\* bool(v): None and the empty string are falsy
Truthy(v) == v.kind = "str" /\ v.val # <<>>

\* d.get(k, default)
DictGet(d, k, default) == IF k \in DOMAIN d THEN d[k] ELSE default

\* sep.join(list) for a list of str values
RECURSIVE JoinFrom(_, _, _)
JoinFrom(sep, list, i) ==
    IF i > Len(list) THEN <<>>
    ELSE IF i = Len(list) THEN list[i].val
    ELSE list[i].val \o sep \o JoinFrom(sep, list, i + 1)

StrJoin(sep, list) == PyStr(JoinFrom(sep, list, 1))

---------------------------------------------------------------------------
(* String literals of the program *)

S_NA == <<"N","/","A">>
S_Unknown == <<"U","n","k","n","o","w","n">>
S_CommaSpace == <<","," ">>
S_Comma == <<",">>
S_uids == <<"u","i","d","s">>

K_PubmedID == "PubmedID"
K_Title == "Title"
K_PubDate == "Publication Date"
K_NonAcademic == "Non-academic Author(s)"
K_Company == "Company Affiliation(s)"
K_Email == "Corresponding Author Email"

\* the alternatives of the pattern r'university|college|institute|lab'
ACADEMIC_PATTERN ==
    << <<"u","n","i","v","e","r","s","i","t","y">>,
       <<"c","o","l","l","e","g","e">>,
       <<"i","n","s","t","i","t","u","t","e">>,
       <<"l","a","b">> >>

---------------------------------------------------------------------------
(* re.search(pattern, text, re.IGNORECASE) for an alternation of literals *)

UpperLetters ==
    <<"A","B","C","D","E","F","G","H","I","J","K","L","M",
      "N","O","P","Q","R","S","T","U","V","W","X","Y","Z">>

LowerLetters ==
    <<"a","b","c","d","e","f","g","h","i","j","k","l","m",
      "n","o","p","q","r","s","t","u","v","w","x","y","z">>

ToLower(c) ==
    IF \E i \in DOMAIN UpperLetters : UpperLetters[i] = c
    THEN LowerLetters[CHOOSE i \in DOMAIN UpperLetters : UpperLetters[i] = c]
    ELSE c

\* a pattern character against a text character, without re.IGNORECASE
CharMatchExact(p, t) == p = t

\* a pattern character against a text character under re.IGNORECASE
CharMatch(p, t) == ToLower(p) = ToLower(t)

\* the literal lit matches text at position pos (1-based)
MatchAt(lit, text, pos) ==
    /\ pos + Len(lit) - 1 <= Len(text)
    /\ \A j \in 1..Len(lit) : CharMatch(lit[j], text[pos + j - 1])

\* the scan of re.search: leftmost position at which some alternative matches
RECURSIVE SearchFrom(_, _, _)
SearchFrom(alts, text, pos) ==
    IF pos > Len(text) THEN FALSE
    ELSE IF \E k \in 1..Len(alts) : MatchAt(alts[k], text, pos) THEN TRUE
    ELSE SearchFrom(alts, text, pos + 1)

\* truth value of re.search(...): a match object is truthy, None is falsy
re_search(alts, text) == SearchFrom(alts, text, 1)

---------------------------------------------------------------------------
(* filter_non_academic_authors *)

\* the condition of the if statement in the loop body, without its `not`
IsNonAcademicInverted(affiliation) ==
    Truthy(affiliation) /\ re_search(ACADEMIC_PATTERN, affiliation.val)

\* the condition of the if statement in the loop body
IsNonAcademic(affiliation) ==
    Truthy(affiliation) /\ ~re_search(ACADEMIC_PATTERN, affiliation.val)

RECURSIVE FilterLoop(_, _, _, _)
FilterLoop(as, i, names, companies) ==
    IF i > Len(as) THEN <<names, companies>>
    ELSE LET affiliation == DictGet(as[i], "affiliation", PyStr(<<>>))
         IN  IF IsNonAcademic(affiliation)
             THEN FilterLoop(as, i + 1,
                             Append(names, DictGet(as[i], "name", PyStr(S_Unknown))),
                             Append(companies, affiliation))
             ELSE FilterLoop(as, i + 1, names, companies)

filter_non_academic_authors(as) == FilterLoop(as, 1, <<>>, <<>>)

---------------------------------------------------------------------------
(* extract_corresponding_email and parse_paper_details *)

EmptyDict == <<>>

RECURSIVE EmailLoop(_, _)
EmailLoop(as, i) ==
    IF i > Len(as) THEN PyNone
    ELSE IF "email" \in DOMAIN as[i] THEN as[i]["email"]
    ELSE EmailLoop(as, i + 1)

extract_corresponding_email(as) == EmailLoop(as, 1)

\* v, without `or default`
OrDefaultMissing(v, default) == v

\* v or default
OrDefault(v, default) == IF Truthy(v) THEN v ELSE default

\* the keys of a PaperRecord, in the order the dict literal inserts them
FIELD_ORDER == <<K_PubmedID, K_Title, K_PubDate, K_NonAcademic, K_Company, K_Email>>

\* the body of the for loop: the record appended for one key of the mapping
PaperRecord(paper_id, details) ==
    LET title == DictGet(details, "title", PyStr(S_NA))
        pub_date == DictGet(details, "pubdate", PyStr(S_NA))
        author_list == DictGet(details, "authors", <<>>)
        filtered == filter_non_academic_authors(author_list)
        corresponding_email == extract_corresponding_email(author_list)
    IN  (K_PubmedID :> PyStr(paper_id))
        @@ (K_Title :> title)
        @@ (K_PubDate :> pub_date)
        @@ (K_NonAcademic :> StrJoin(S_CommaSpace, filtered[1]))
        @@ (K_Company :> StrJoin(S_CommaSpace, filtered[2]))
        @@ (K_Email :> OrDefault(corresponding_email, PyStr(S_NA)))

\* a loop that skips no key
NeverReserved(paper_id) == FALSE

\* the test that makes the loop skip the reserved key
IsReservedKey(paper_id) == paper_id = S_uids

RECURSIVE ParseLoop(_, _, _)
ParseLoop(items, i, acc) ==
    IF i > Len(items) THEN acc
    ELSE IF IsReservedKey(items[i].key) THEN ParseLoop(items, i + 1, acc)
    ELSE ParseLoop(items, i + 1,
                   Append(acc, PaperRecord(items[i].key, items[i].details)))

parse_paper_details(data) == ParseLoop(DictGet(data, "result", <<>>), 1, <<>>)

---------------------------------------------------------------------------
(* The two network calls *)

\* a response that has not arrived
NoResponse == [net |-> "none", status |-> 0, json |-> "none", data |-> EmptyDict]

\* what lines 31-33 / 50-52 end with: the class of the exception raised, or
\* "data" when response.json() returned
CallOutcome(r) ==
    IF r.net = "error" THEN "RequestException"           \* requests.get raised
    ELSE IF r.status >= 400 THEN "RequestException"      \* raise_for_status: HTTPError
    ELSE IF r.json = "invalid" THEN json_error           \* response.json() raised
    ELSE "data"

\* an except clause that catches nothing
CaughtNothing(e) == FALSE

\* except RequestException
Caught(e) == e = "RequestException"

\* fetch_paper_details(paper_ids) without the `if paper_ids else []`
AlwaysFetch(ids) == TRUE

\* the condition of `fetch_paper_details(paper_ids) if paper_ids else []`
ShouldFetchDetails(ids) == ids # <<>>

Event(e, ids) == [ev |-> e, id |-> ids]

\* one detail request for each identifier
RequestPerId(ids) == [i \in 1..Len(ids) |-> Event("detail_req", ids[i])]

\* fetch_paper_details up to requests.get: one request, whose id parameter
\* is ",".join(paper_ids)
DetailRequestsFor(ids) ==
    <<Event("detail_req",
            StrJoin(S_Comma, [i \in 1..Len(ids) |-> PyStr(ids[i])]).val)>>

\* main calls fetch_pubmed_papers, which sends the search request
SearchRequest ==
    /\ pc = "start"
    /\ pc' = "search_wait"
    /\ net_log' = Append(net_log, Event("search_req", <<>>))
    /\ UNCHANGED <<args_file, fs, search_resp, paper_ids, detail_resp, papers,
                   exc, stdout, authors, classified, json_error>>

\* fetch_pubmed_papers from the arrival of the search response up to its
\* return or up to the sending of the detail request
SearchResponse(r) ==
    /\ pc = "search_wait"
    /\ search_resp' = r
    /\ LET o == CallOutcome(r)
       IN  IF o # "data"
           THEN /\ net_log' = Append(net_log, Event("search_fail", <<>>))
                /\ paper_ids' = paper_ids
                /\ IF Caught(o)
                   THEN papers' = <<>> /\ pc' = "report" /\ exc' = exc
                   ELSE papers' = papers /\ pc' = "failed" /\ exc' = o
           ELSE IF r.json # "object"
           THEN \* data.get on a value that is no dict
                /\ net_log' = Append(net_log, Event("search_fail", <<>>))
                /\ paper_ids' = paper_ids
                /\ IF Caught("AttributeError")
                   THEN papers' = <<>> /\ pc' = "report" /\ exc' = exc
                   ELSE papers' = papers /\ pc' = "failed" /\ exc' = "AttributeError"
           ELSE LET ids == DictGet(DictGet(r.data, "esearchresult", EmptyDict),
                                    "idlist", <<>>)
                IN  /\ paper_ids' = ids
                    /\ exc' = exc
                    /\ IF ShouldFetchDetails(ids)
                       THEN /\ net_log' = net_log \o <<Event("search_ok", <<>>)>>
                                            \o DetailRequestsFor(ids)
                            /\ papers' = papers
                            /\ pc' = "detail_wait"
                       ELSE /\ net_log' = Append(net_log, Event("search_ok", <<>>))
                            /\ papers' = <<>>
                            /\ pc' = "report"
    /\ UNCHANGED <<args_file, fs, detail_resp, stdout, authors, classified, json_error>>

\* fetch_paper_details from the arrival of the detail response, and the
\* return through fetch_pubmed_papers to main
DetailResponse(r) ==
    /\ pc = "detail_wait"
    /\ detail_resp' = r
    /\ LET o == IF CallOutcome(r) # "data" THEN CallOutcome(r)
                ELSE IF r.json # "object" THEN "AttributeError"
                ELSE "data"
       IN  IF o = "data"
           THEN /\ net_log' = Append(net_log, Event("detail_ok", <<>>))
                /\ papers' = parse_paper_details(r.data)
                /\ pc' = "report"
                /\ exc' = exc
           ELSE /\ net_log' = Append(net_log, Event("detail_fail", <<>>))
                /\ IF Caught(o)
                   THEN papers' = <<>> /\ pc' = "report" /\ exc' = exc
                   ELSE papers' = papers /\ pc' = "failed" /\ exc' = o
    /\ UNCHANGED <<args_file, fs, search_resp, paper_ids, stdout, authors,
                   classified, json_error>>

---------------------------------------------------------------------------
(* The report *)

NoFile == [exists |-> FALSE, header |-> <<>>, rows |-> <<>>]

\* what open(filename, mode='w') leaves at the path: a file of zero bytes
TruncatedFile == [exists |-> TRUE, header |-> <<>>, rows |-> <<>>]

\* papers[0].keys()
DictKeys(paper) == FIELD_ORDER

\* the row DictWriter writes for one record: its values in fieldnames order
CsvRow(fieldnames, paper) == [j \in 1..Len(fieldnames) |-> paper[fieldnames[j]]]

\* main with args.file set: save_to_csv(papers, args.file)
SaveToCsv ==
    /\ pc = "report"
    /\ args_file
    /\ IF papers = <<>>
       THEN \* the file is opened, then papers[0] raises
            /\ fs' = TruncatedFile
            /\ exc' = "IndexError"
            /\ pc' = "failed"
       ELSE /\ fs' = [exists |-> TRUE,
                      header |-> DictKeys(papers[1]),
                      rows |-> [i \in 1..Len(papers) |->
                                    CsvRow(DictKeys(papers[1]), papers[i])]]
            /\ exc' = exc
            /\ pc' = "done"
    /\ UNCHANGED <<args_file, net_log, search_resp, paper_ids, detail_resp,
                   papers, stdout, authors, classified, json_error>>

\* main without args.file: print(paper) for each paper
PrintPapers ==
    /\ pc = "report"
    /\ ~args_file
    /\ stdout' = stdout \o papers
    /\ pc' = "done"
    /\ UNCHANGED <<args_file, fs, net_log, search_resp, paper_ids, detail_resp,
                   papers, exc, authors, classified, json_error>>

---------------------------------------------------------------------------
(* Input values *)

S_JaneDoe == <<"J","a","n","e"," ","D","o","e">>
S_JohnSmith == <<"J","o","h","n"," ","S","m","i","t","h">>
S_Pfizer == <<"P","f","i","z","e","r"," ","I","n","c",".">>
S_MIT == <<"M","I","T">>
S_JaneEmail == <<"j","a","n","e","@","p","f","i","z","e","r",".","c","o","m">>
S_StudyA == <<"S","t","u","d","y"," ","A">>
S_StudyB == <<"S","t","u","d","y"," ","B">>
S_2023 == <<"2","0","2","3">>
S_2022 == <<"2","0","2","2">>
S_111 == <<"1","1","1">>
S_222 == <<"2","2","2">>
S_333 == <<"3","3","3">>
S_Harvard == <<"H","a","r","v","a","r","d"," ","U","n","i","v","e","r","s","i","t","y">>
S_BostonCollege == <<"B","o","s","t","o","n"," ","C","o","l","l","e","g","e">>
S_Broad == <<"B","R","O","A","D"," ","I","N","S","T","I","T","U","T","E">>
S_Collaborative == <<"C","o","l","l","a","b","o","r","a","t","i","v","e"," ","I","n","c">>
S_LaB == <<"L","a","B">>
S_la == <<"l","a">>

SeqsUpTo(S, n) == UNION {[1..k -> S] : k \in 0..n}

IsInjective(q) == \A i, j \in DOMAIN q : q[i] = q[j] => i = j

\* marks a key that the dict does not hold
PyAbsent == [kind |-> "absent", val |-> <<>>]

\* the dict holding the keys of full that are not marked absent
DropAbsent(full) == [k \in {x \in DOMAIN full : full[x].kind # "absent"} |-> full[k]]

StrValues(S) == {PyStr(x) : x \in S}

AuthorDicts(names, affiliations, emails) ==
    {DropAbsent([name |-> n, affiliation |-> a, email |-> e]) :
        n \in names, a \in affiliations, e \in emails}

\* the affiliations the classifier is run on: empty, without a keyword, with
\* each keyword in some letter case, with a keyword inside a word, and
\* with a proper prefix of a keyword
AffiliationPool ==
    {<<>>, S_Pfizer, S_MIT, S_Harvard, S_BostonCollege, S_Broad,
     S_Collaborative, S_LaB, S_la}

FilterAuthors ==
    AuthorDicts({PyStr(S_JaneDoe), PyAbsent},
                StrValues(AffiliationPool) \cup {PyAbsent},
                {PyAbsent})

\* the author dicts of the detail responses given to parse_paper_details
ParseAuthors ==
    AuthorDicts({PyStr(S_JaneDoe), PyAbsent},
                StrValues({<<>>, S_Pfizer}) \cup {PyAbsent},
                StrValues({<<>>, S_JaneEmail}) \cup {PyAbsent})

DetailsDicts(titles, pubdates, authorLists) ==
    {[k \in {x \in {"title", "pubdate", "authors"} :
                 \/ x = "title" /\ ti.kind # "absent"
                 \/ x = "pubdate" /\ pd.kind # "absent"
                 \/ x = "authors" /\ al.present}
        |-> CASE k = "title" -> ti
              [] k = "pubdate" -> pd
              [] OTHER -> al.list] :
        ti \in titles, pd \in pubdates, al \in authorLists}

OptionalLists(S, n) ==
    {[present |-> FALSE, list |-> <<>>]} \cup
    {[present |-> TRUE, list |-> l] : l \in SeqsUpTo(S, n)}

ParseDetails ==
    DetailsDicts({PyStr(S_StudyA), PyAbsent}, {PyStr(S_2023), PyAbsent},
                 OptionalLists(ParseAuthors, MaxAuthors))

\* the two details objects of the two-paper scenario
DetailsA ==
    [title |-> PyStr(S_StudyA), pubdate |-> PyStr(S_2023),
     authors |-> <<[name |-> PyStr(S_JaneDoe), affiliation |-> PyStr(S_Pfizer),
                    email |-> PyStr(S_JaneEmail)]>>]

DetailsB ==
    [title |-> PyStr(S_StudyB), pubdate |-> PyStr(S_2022),
     authors |-> <<[name |-> PyStr(S_JohnSmith), affiliation |-> PyStr(S_MIT)]>>]

DetailsUniverse == {DetailsA, DetailsB, EmptyDict}

IdPool == <<S_111, S_222, S_333>>

Ids == {IdPool[i] : i \in {j \in DOMAIN IdPool : j <= MaxIds}}

IdLists == {l \in SeqsUpTo(Ids, MaxIds) : IsInjective(l)}

Range(q) == {q[i] : i \in DOMAIN q}

\* the result mappings the detail endpoint answers a request for ids with:
\* keyed by requested identifiers, in any order, with or without "uids"
ResultMappings(ids) ==
    LET keys == Range(ids) \cup {S_uids}
        keySeqs == {q \in SeqsUpTo(keys, Cardinality(keys)) : IsInjective(q)}
    IN  UNION {{[i \in 1..Len(ks) |->
                    [key |-> ks[i],
                     details |-> IF ks[i] = S_uids THEN EmptyDict ELSE d[i]]] :
                 d \in [1..Len(ks) -> DetailsUniverse]} : ks \in keySeqs}

Response(net, status, json, data) ==
    [net |-> net, status |-> status, json |-> json, data |-> data]

\* transport failure, HTTP 500, a body that is not JSON, a JSON array
FailingResponses ==
    {Response("error", 0, "none", EmptyDict),
     Response("ok", 500, "none", EmptyDict),
     Response("ok", 200, "invalid", EmptyDict),
     Response("ok", 200, "array", EmptyDict)}

SearchResponses ==
    FailingResponses \cup
    {Response("ok", 200, "object", d) :
        d \in {EmptyDict, [esearchresult |-> EmptyDict]} \cup
              {[esearchresult |-> [idlist |-> l]] : l \in IdLists}}

DetailResponses(ids) ==
    FailingResponses \cup
    {Response("ok", 200, "object", d) :
        d \in {EmptyDict} \cup {[result |-> m] : m \in ResultMappings(ids)}}

\* a report written by an earlier run
OldFile ==
    [exists |-> TRUE, header |-> FIELD_ORDER,
     rows |-> <<CsvRow(FIELD_ORDER, PaperRecord(S_333, DetailsA))>>]

---------------------------------------------------------------------------
(* The run of main *)

\* the search endpoint answers
SearchReply == pc = "search_wait" /\ \E r \in SearchResponses : SearchResponse(r)

\* the detail endpoint answers the request for paper_ids
DetailReply ==
    pc = "detail_wait" /\ \E r \in DetailResponses(paper_ids) : DetailResponse(r)

Init ==
    /\ pc = "start"
    /\ args_file \in BOOLEAN
    /\ fs \in {NoFile, OldFile}
    /\ json_error \in {"RequestException", "ValueError"}
    /\ net_log = <<>>
    /\ search_resp = NoResponse
    /\ paper_ids = <<>>
    /\ detail_resp = NoResponse
    /\ papers = <<>>
    /\ exc = "none"
    /\ stdout = <<>>
    /\ authors = <<>>
    /\ classified = <<<<>>, <<>>>>

Next ==
    \/ SearchRequest
    \/ SearchReply
    \/ DetailReply
    \/ SaveToCsv
    \/ PrintPapers

Spec == Init /\ [][Next]_vars

---------------------------------------------------------------------------
(* parse_paper_details on its own *)

ParseInputs ==
    {Response("ok", 200, "object",
              [result |-> <<[key |-> S_uids, details |-> EmptyDict],
                            [key |-> S_111, details |-> d]>>]) :
        d \in ParseDetails}

InitParse ==
    /\ pc = "parse_in"
    /\ detail_resp \in ParseInputs
    /\ args_file = FALSE
    /\ fs = NoFile
    /\ json_error = "RequestException"
    /\ net_log = <<>>
    /\ search_resp = NoResponse
    /\ paper_ids = <<>>
    /\ papers = <<>>
    /\ exc = "none"
    /\ stdout = <<>>
    /\ authors = <<>>
    /\ classified = <<<<>>, <<>>>>

ParseStep ==
    /\ pc = "parse_in"
    /\ papers' = parse_paper_details(detail_resp.data)
    /\ pc' = "parse_out"
    /\ UNCHANGED <<args_file, fs, net_log, search_resp, paper_ids, detail_resp,
                   exc, stdout, authors, classified, json_error>>

SpecParse == InitParse /\ [][ParseStep]_vars

---------------------------------------------------------------------------
(* filter_non_academic_authors on its own *)

InitFilter ==
    /\ pc = "filter_in"
    /\ authors \in SeqsUpTo(FilterAuthors, MaxAuthors)
    /\ classified = <<<<>>, <<>>>>
    /\ args_file = FALSE
    /\ fs = NoFile
    /\ json_error = "RequestException"
    /\ net_log = <<>>
    /\ search_resp = NoResponse
    /\ paper_ids = <<>>
    /\ detail_resp = NoResponse
    /\ papers = <<>>
    /\ exc = "none"
    /\ stdout = <<>>

FilterStep ==
    /\ pc = "filter_in"
    /\ classified' = filter_non_academic_authors(authors)
    /\ pc' = "filter_out"
    /\ UNCHANGED <<args_file, fs, net_log, search_resp, paper_ids, detail_resp,
                   papers, exc, stdout, authors, json_error>>

SpecFilter == InitFilter /\ [][FilterStep]_vars

---------------------------------------------------------------------------
(* Properties of the classifier *)

Keywords ==
    {<<"u","n","i","v","e","r","s","i","t","y">>, <<"c","o","l","l","e","g","e">>,
     <<"i","n","s","t","i","t","u","t","e">>, <<"l","a","b">>}

LowerStr(text) == [i \in 1..Len(text) |-> ToLower(text[i])]

\* kw is a substring of text, letter case ignored
ContainsIgnoringCase(text, kw) ==
    LET low == LowerStr(text)
    IN  \E i \in 1..(Len(text) - Len(kw) + 1) :
            \A j \in 1..Len(kw) : low[i + j - 1] = kw[j]

\* the policy: a non-empty affiliation that holds none of the keywords
PolicyNonAcademic(a) ==
    /\ "affiliation" \in DOMAIN a
    /\ a["affiliation"].val # <<>>
    /\ \A kw \in Keywords : ~ContainsIgnoringCase(a["affiliation"].val, kw)

\* the index of the k-th author that the policy selects
SelectedIndex(as, k) ==
    CHOOSE i \in 1..Len(as) :
        /\ PolicyNonAcademic(as[i])
        /\ Cardinality({j \in 1..i : PolicyNonAcademic(as[j])}) = k

\* C1: an author is in the output of filter_non_academic_authors iff its
\* affiliation is non-empty and holds none of the four keywords in any letter
\* case; the two lists have equal length and are aligned in author order; a
\* missing name is reported as "Unknown".
C1_ClassifierPolicy ==
    pc = "filter_out" =>
        LET names == classified[1]
            companies == classified[2]
            selected == {i \in 1..Len(authors) : PolicyNonAcademic(authors[i])}
        IN  /\ Len(names) = Len(companies)
            /\ Len(names) = Cardinality(selected)
            /\ \A k \in 1..Len(names) :
                  LET a == authors[SelectedIndex(authors, k)]
                  IN  /\ companies[k] = a["affiliation"]
                      /\ names[k] = IF "name" \in DOMAIN a THEN a["name"]
                                    ELSE PyStr(S_Unknown)

\* two authors: the first academic by a keyword in upper case, the second
\* non-academic and nameless
C1_Witness ==
    /\ pc = "filter_out"
    /\ Len(authors) = 2
    /\ authors[1] = [name |-> PyStr(S_JaneDoe), affiliation |-> PyStr(S_Broad)]
    /\ authors[2] = [affiliation |-> PyStr(S_Pfizer)]
    /\ classified = << <<PyStr(S_Unknown)>>, <<PyStr(S_Pfizer)>> >>

---------------------------------------------------------------------------
(* Properties of the parser *)

ParsedDetails == detail_resp.data["result"][2].details

AuthorsOf(details) == IF "authors" \in DOMAIN details THEN details["authors"] ELSE <<>>

HasEmail(as) == \E i \in 1..Len(as) : "email" \in DOMAIN as[i]

FirstWithEmail(as) ==
    CHOOSE i \in 1..Len(as) :
        /\ "email" \in DOMAIN as[i]
        /\ \A j \in 1..(i - 1) : "email" \notin DOMAIN as[j]

\* C2: without an author email the record's email is "N/A"; with one, it is
\* the email of the first author that has one, whatever its value.
C2_FirstEmail ==
    pc = "parse_out" =>
        LET as == AuthorsOf(ParsedDetails)
        IN  papers[1][K_Email] =
                IF HasEmail(as) THEN as[FirstWithEmail(as)]["email"]
                ELSE PyStr(S_NA)

\* the six fields of a PaperRecord
FieldNames == {K_PubmedID, K_Title, K_PubDate, K_NonAcademic, K_Company, K_Email}

\* C8: whatever fields are absent, parse_paper_details produces the record,
\* and each of its six fields is a string: "N/A" for an absent title,
\* publication date or email, "" for absent non-academic authors and
\* affiliations.
C8_FieldsPopulated ==
    pc = "parse_out" =>
        LET d == ParsedDetails
            as == AuthorsOf(d)
            rec == papers[1]
        IN  /\ Len(papers) = 1
            /\ DOMAIN rec = FieldNames
            /\ \A f \in FieldNames : rec[f].kind = "str"
            /\ rec[K_PubmedID] = PyStr(S_111)
            /\ rec[K_Title] = IF "title" \in DOMAIN d THEN d["title"] ELSE PyStr(S_NA)
            /\ rec[K_PubDate] = IF "pubdate" \in DOMAIN d THEN d["pubdate"] ELSE PyStr(S_NA)
            /\ ~HasEmail(as) => rec[K_Email] = PyStr(S_NA)
            /\ (\A i \in 1..Len(as) : ~PolicyNonAcademic(as[i])) =>
                   rec[K_NonAcademic] = PyStr(<<>>) /\ rec[K_Company] = PyStr(<<>>)

\* a details object with no field at all has been parsed
C8_Witness ==
    /\ pc = "parse_out"
    /\ DOMAIN ParsedDetails = {}
    /\ papers[1][K_Title] = PyStr(S_NA)
    /\ papers[1][K_Email] = PyStr(S_NA)
    /\ papers[1][K_NonAcademic] = PyStr(<<>>)

---------------------------------------------------------------------------
(* Properties of the run *)

Finished == pc \in {"done", "failed"}

Http500(r) == r.net = "ok" /\ r.status = 500

\* the response is one of the three failure kinds
IsFailure(r) == r.net = "error" \/ r.status >= 400 \/ r.json \in {"invalid", "array"}

Requests == {i \in DOMAIN net_log : net_log[i].ev \in {"search_req", "detail_req"}}

DetailRequests == {i \in DOMAIN net_log : net_log[i].ev = "detail_req"}

\* the detail response is a result mapping
HasResult ==
    /\ detail_resp.net = "ok" /\ detail_resp.status = 200
    /\ detail_resp.json = "object"
    /\ "result" \in DOMAIN detail_resp.data

\* the two-paper scenario: the search returned 111 and 222, and the detail
\* response maps them to the scenario's two details objects
Scenario ==
    /\ paper_ids = <<S_111, S_222>>
    /\ HasResult
    /\ LET m == detail_resp.data["result"]
       IN  /\ \E i \in DOMAIN m : m[i].key = S_111 /\ m[i].details = DetailsA
           /\ \E i \in DOMAIN m : m[i].key = S_222 /\ m[i].details = DetailsB

RowsFor(id) == {i \in DOMAIN papers : papers[i][K_PubmedID] = PyStr(id)}

RowIs(i, nonAcademic, company, email) ==
    /\ papers[i][K_NonAcademic] = PyStr(nonAcademic)
    /\ papers[i][K_Company] = PyStr(company)
    /\ papers[i][K_Email] = PyStr(email)

\* C3 as stated: in the scenario the row for 222 has both non-academic
\* fields empty
C3_ScenarioAsStated ==
    Scenario =>
        /\ Len(papers) = 2
        /\ \E i \in RowsFor(S_111) : RowIs(i, S_JaneDoe, S_Pfizer, S_JaneEmail)
        /\ \E i \in RowsFor(S_222) : RowIs(i, <<>>, <<>>, S_NA)

\* C3: in the two-paper scenario the run produces two rows; the row for 111
\* has Jane Doe, Pfizer Inc. and jane@pfizer.com; the row for 222 has John
\* Smith, MIT (an affiliation without a keyword) and the email "N/A".
C3_Scenario ==
    Scenario =>
        /\ Len(papers) = 2
        /\ \A i \in RowsFor(S_111) : RowIs(i, S_JaneDoe, S_Pfizer, S_JaneEmail)
        /\ \A i \in RowsFor(S_222) : RowIs(i, S_JohnSmith, S_MIT, S_NA)
        /\ RowsFor(S_111) # {} /\ RowsFor(S_222) # {}

\* the scenario has run to its end in console mode
C3_Witness ==
    /\ Scenario
    /\ pc = "done"
    /\ Len(stdout) = 2
    /\ stdout[1][K_PubmedID] = PyStr(S_111)
    /\ stdout[2][K_Company] = PyStr(S_MIT)

\* C4 as stated: after an HTTP 500 from the search endpoint the record list
\* is empty and no exception escapes main, with or without a destination
C4_Http500AsStated ==
    Http500(search_resp) => papers = <<>> /\ exc = "none"

\* C4: after an HTTP 500 from the search endpoint the record list is empty,
\* no detail request is sent and no exception escapes fetch_pubmed_papers;
\* without a destination no exception escapes main; with one, main ends in
\* the IndexError of save_to_csv.
C4_Http500 ==
    Http500(search_resp) =>
        /\ papers = <<>>
        /\ DetailRequests = {}
        /\ pc \in {"report", "done", "failed"}
        /\ ~args_file => exc = "none" /\ pc # "failed"
        /\ args_file => exc \in {"none", "IndexError"} /\ pc # "done"

\* the search answered 500 and the console run has ended
C4_Witness ==
    /\ Http500(search_resp)
    /\ ~args_file
    /\ pc = "done"
    /\ stdout = <<>>

\* C5: a transport failure, a non-success status and malformed or oddly
\* shaped JSON are each turned into an empty list by the fetch function that
\* meets them; none leaves it as an exception.
C5_FailuresAbsorbed ==
    (IsFailure(search_resp) \/ IsFailure(detail_resp)) =>
        /\ exc \in {"none", "IndexError"}
        /\ papers = <<>>

\* the file at the destination has no header row
Malformed(f) == f.exists /\ f.header # FIELD_ORDER

\* C6: a run with a destination and no record fails, and the destination
\* then holds no header-less file, be it new or a former report.
C6_NoMalformedFile ==
    (args_file /\ papers = <<>> /\ Finished /\ exc \in {"none", "IndexError"}) =>
        /\ pc = "failed"
        /\ ~Malformed(fs)

\* the identifier list of the search response, [] if a key is absent
IdListOf(r) ==
    IF "esearchresult" \notin DOMAIN r.data THEN <<>>
    ELSE IF "idlist" \notin DOMAIN r.data["esearchresult"] THEN <<>>
    ELSE r.data["esearchresult"]["idlist"]

EmptySearch(r) ==
    r.net = "ok" /\ r.status = 200 /\ r.json = "object" /\ IdListOf(r) = <<>>

\* C7: when the search response has an empty or absent idlist, no detail
\* request is sent and the record list is empty.
C7_EmptyIdList ==
    EmptySearch(search_resp) =>
        /\ DetailRequests = {}
        /\ detail_resp = NoResponse
        /\ papers = <<>>

\* a search without idlist has run to its end
C7_Witness ==
    /\ EmptySearch(search_resp)
    /\ "esearchresult" \in DOMAIN search_resp.data
    /\ "idlist" \notin DOMAIN search_resp.data["esearchresult"]
    /\ pc = "done"

\* C9: the run never holds more records than identifiers requested; after
\* the detail response, the records are those of the keys of its result
\* mapping other than "uids", one each, in the mapping's order.
C9_RecordCount ==
    /\ Len(papers) <= Len(paper_ids)
    /\ (HasResult /\ pc \in {"report", "done"}) =>
          LET m == detail_resp.data["result"]
              kept == SelectSeq(m, LAMBDA e : e.key # S_uids)
          IN  /\ Len(papers) = Len(kept)
              /\ \A i \in 1..Len(kept) :
                    papers[i][K_PubmedID] = PyStr(kept[i].key)

\* two records, in the order of a mapping that lists uids, 222 and 111
C9_Witness ==
    /\ pc = "done"
    /\ paper_ids = <<S_111, S_222>>
    /\ HasResult
    /\ Len(detail_resp.data["result"]) = 3
    /\ detail_resp.data["result"][1].key = S_uids
    /\ Len(papers) = 2
    /\ papers[1][K_PubmedID] = PyStr(S_222)
    /\ papers[2][K_PubmedID] = PyStr(S_111)

\* the identifiers with a comma between each two
RECURSIVE JoinedIds(_)
JoinedIds(ids) ==
    IF ids = <<>> THEN <<>>
    ELSE IF Len(ids) = 1 THEN ids[1]
    ELSE JoinedIds(SubSeq(ids, 1, Len(ids) - 1)) \o <<",">> \o ids[Len(ids)]

\* C10: at most one search request and one detail request; the detail
\* request follows at once a successful search with a non-empty identifier
\* list, which it carries whole; no request follows a failure.
C10_Sequential ==
    /\ Cardinality({i \in DOMAIN net_log : net_log[i].ev = "search_req"}) <= 1
    /\ Cardinality(DetailRequests) <= 1
    /\ \A j \in DetailRequests :
          /\ j = 3
          /\ net_log[1].ev = "search_req"
          /\ net_log[2].ev = "search_ok"
          /\ paper_ids # <<>>
          /\ IdListOf(search_resp) = paper_ids
          /\ net_log[j].id = JoinedIds(paper_ids)
    /\ \A i, j \in DOMAIN net_log :
          (i < j /\ net_log[i].ev \in {"search_fail", "detail_fail"}) => j \notin Requests
    /\ \A j \in DOMAIN net_log : j > 1 => net_log[j].ev # "search_req"

\* both requests were sent, the second one failed, and the run ended
C10_Witness ==
    /\ pc = "done"
    /\ Len(net_log) = 4
    /\ net_log[3].ev = "detail_req"
    /\ net_log[3].id = <<"1","1","1",",","2","2","2">>
    /\ net_log[4].ev = "detail_fail"

=============================================================================
